---------------------------- MODULE Spec2Model ----------------------------
(***************************************************************************)
(* Model of src/src/index.js: the cache-aside Worker entry point (the      *)
(* default export's fetch) and the Browser Durable Object (Browser.fetch,  *)
(* Browser.alarm) that owns one puppeteer browser handle and evicts it     *)
(* with a recurring storage alarm.                                         *)
(*                                                                         *)
(* Strings are sequences of one-character strings, so that the regular     *)
(* expression, split, join and parseInt are computed, not assumed.         *)
(***************************************************************************)
EXTENDS Integers, Sequences, FiniteSets, TLC

(***************************************************************************)
(* Part 1. Strings, the URL pattern and the request settings               *)
(* (index.js lines 24-39 and 52-70).                                       *)
(***************************************************************************)

\* The value of a named capture group that did not take part in the match
\* (JavaScript undefined).  No group of the pattern that can be absent can
\* match the empty string, so the empty sequence stands for undefined.
Undefined == << >>

Digits == {"0", "1", "2", "3", "4", "5", "6", "7", "8", "9"}

Letters ==
    {"a", "b", "c", "d", "e", "f", "g", "h", "i", "j", "k", "l", "m",
     "n", "o", "p", "q", "r", "s", "t", "u", "v", "w", "x", "y", "z"}

\* \w of the regular expression (the model's URLs are lower case).
WordChars == Letters \cup Digits \cup {"_"}

\* The class [\w\.\/] of the base group.
BaseChars == WordChars \cup {".", "/"}

\* The class [2-4] of the scale group.
ScaleDigits == {"2", "3", "4"}

Https == <<"h", "t", "t", "p", "s", ":", "/", "/">>

Marker == <<"/", "s", "c", "r", "e", "e", "n", "s", "h", "o", "t">>

Pdf == <<"p", "d", "f">>

Png == <<"p", "n", "g">>

\* The alternation (pdf|png) of the format group.
Formats == {Pdf, Png}

\* TRUE when the literal lit occurs in u starting at index i.
IsAt(u, i, lit) ==
    /\ i >= 1
    /\ i + Len(lit) - 1 <= Len(u)
    /\ SubSeq(u, i, i + Len(lit) - 1) = lit

\* TRUE when every character of u[i..j] is in class cls (and i <= j).
AllIn(u, i, j, cls) ==
    /\ 1 <= i
    /\ i <= j
    /\ j <= Len(u)
    /\ \A k \in i..j : u[k] \in cls

\* The ways (?:\/(?<width>[0-9]+)x(?<height>[0-9]+))? can match at index a:
\* records [d, w, h, e] with d = the group took part, w and h the captured
\* digits, e the index of the last character consumed (a - 1 when absent).
DimsAt(u, a) ==
    {[d |-> FALSE, w |-> Undefined, h |-> Undefined, e |-> a - 1]}
    \cup
    IF a <= Len(u) /\ u[a] = "/"
    THEN {[d |-> TRUE,
           w |-> SubSeq(u, a + 1, we),
           h |-> SubSeq(u, we + 2, he),
           e |-> he] :
            <<we, he>> \in
              {<<i, j>> \in (a + 1 .. Len(u)) \X (a + 3 .. Len(u)) :
                 /\ AllIn(u, a + 1, i, Digits)
                 /\ i + 1 <= Len(u)
                 /\ u[i + 1] = "x"
                 /\ AllIn(u, i + 2, j, Digits)}}
    ELSE {}

\* The ways (?:@(?<scale>[2-4])x)? can match at index a.
ScaleAt(u, a) ==
    {[on |-> FALSE, v |-> Undefined, e |-> a - 1]}
    \cup
    IF /\ a + 2 <= Len(u)
       /\ u[a] = "@"
       /\ u[a + 1] \in ScaleDigits
       /\ u[a + 2] = "x"
    THEN {[on |-> TRUE, v |-> <<u[a + 1]>>, e |-> a + 2]}
    ELSE {}

\* The ways (?:\.(?<format>(pdf|png)))? can match at index a.
FormatAt(u, a) ==
    {[on |-> FALSE, v |-> Undefined, e |-> a - 1]}
    \cup
    IF a + 3 <= Len(u) /\ u[a] = "." /\ SubSeq(u, a + 1, a + 3) \in Formats
    THEN {[on |-> TRUE, v |-> SubSeq(u, a + 1, a + 3), e |-> a + 3]}
    ELSE {}

\* The ways (?<query>\?.*)?$ can match at index a: the group runs to the end
\* of the input, or is absent and the input ends at a - 1.
QueryAt(u, a) ==
    (IF a = Len(u) + 1 THEN {[on |-> FALSE, v |-> Undefined]} ELSE {})
    \cup
    (IF a <= Len(u) /\ u[a] = "?"
     THEN {[on |-> TRUE, v |-> SubSeq(u, a, Len(u))]}
     ELSE {})

BoolRank(b) == IF b THEN 0 ELSE 1

\* Every way the merged pattern matches the whole of u, each with the key
\* that orders the ways as the backtracking matcher tries them: the greedy
\* base longest first, then "s" taken, the dimensions taken (digits
\* longest first), the lazy path shortest first, then scale, format and
\* query taken before skipped.
MatchCandidates(u) ==
    UNION {
      UNION {
        UNION {
          UNION {
            UNION {
              UNION {
                { [groups |-> [base   |-> SubSeq(u, 1, b),
                               width  |-> dm.w,
                               height |-> dm.h,
                               path   |-> SubSeq(u, dm.e + 1, pe),
                               scale  |-> sc.v,
                               format |-> fm.v,
                               query  |-> qu.v],
                   key |-> <<Len(u) - b, BoolRank(s), BoolRank(dm.d),
                             Len(u) - dm.e, pe, BoolRank(sc.on),
                             BoolRank(fm.on), BoolRank(qu.on)>>] :
                  qu \in QueryAt(u, fm.e + 1) }
                : fm \in FormatAt(u, sc.e + 1) }
              : sc \in ScaleAt(u, pe + 1) }
            : pe \in {i \in dm.e + 1 .. Len(u) : u[dm.e + 1] = "/"} }
          : dm \in DimsAt(u, b + Len(Marker) + (IF s THEN 1 ELSE 0) + 1) }
        : s \in {t \in BOOLEAN :
                   t => IsAt(u, b + Len(Marker) + 1, <<"s">>)} }
      : b \in {i \in Len(Https) + 1 .. Len(u) :
                 /\ IsAt(u, 1, Https)
                 /\ AllIn(u, Len(Https) + 1, i, BaseChars)
                 /\ IsAt(u, i + 1, Marker)} }

\* Lexicographic order on keys of equal length.
KeyLess(k1, k2) ==
    \E i \in 1..Len(k1) :
        /\ k1[i] < k2[i]
        /\ \A j \in 1..(i - 1) : k1[j] = k2[j]

NoMatch == [groups |-> Undefined]

\* request.url.match(pattern): the first match in backtracking order, or
\* NoMatch (JavaScript null).
Match(u) ==
    LET cs == MatchCandidates(u)
    IN  IF cs = {} THEN NoMatch
        ELSE LET best == CHOOSE c \in cs :
                           \A o \in cs : o.key = c.key \/ KeyLess(c.key, o.key)
             IN  [groups |-> best.groups]


\* The decimal value of a digit character.
DigitValue(c) ==
    CASE c = "0" -> 0 [] c = "1" -> 1 [] c = "2" -> 2 [] c = "3" -> 3
      [] c = "4" -> 4 [] c = "5" -> 5 [] c = "6" -> 6 [] c = "7" -> 7
      [] c = "8" -> 8 [] c = "9" -> 9

\* parseInt of a non-empty sequence of digits (the only strings the width,
\* height and scale groups can capture).
RECURSIVE ParseInt(_)
ParseInt(ds) ==
    IF Len(ds) = 0 THEN 0
    ELSE 10 * ParseInt(SubSeq(ds, 1, Len(ds) - 1)) + DigitValue(ds[Len(ds)])

\* String.prototype.split(sep) for a one-character separator: "" gives
\* [""], "a&" gives ["a", ""].
RECURSIVE Split(_, _)
Split(str, sep) ==
    IF \E i \in 1..Len(str) : str[i] = sep
    THEN LET i == CHOOSE k \in 1..Len(str) :
                    /\ str[k] = sep
                    /\ \A j \in 1..(k - 1) : str[j] # sep
         IN  <<SubSeq(str, 1, i - 1)>> \o Split(SubSeq(str, i + 1, Len(str)), sep)
    ELSE <<str>>

\* Array.prototype.join(sep).
RECURSIVE Join(_, _)
Join(parts, sep) ==
    IF Len(parts) = 0 THEN << >>
    ELSE IF Len(parts) = 1 THEN parts[1]
    ELSE parts[1] \o <<sep>> \o Join(Tail(parts), sep)

\* str.replace(/^\?/, "").
StripQuestionMark(str) ==
    IF Len(str) > 0 /\ str[1] = "?" THEN Tail(str) ELSE str

\* The defaults table.
DefaultFormat == Png
DefaultWidth == 1200
DefaultHeight == 630
DefaultMaxage == 60 * 60 * 24 * 7
DefaultScale == 1

\* ToBoolean of a string (a present one, or undefined): the empty string
\* and undefined are falsy.
Truthy(str) == str # Undefined

\* ToBoolean of an array: every object is truthy, the empty array included.
ArrayTruthy(arr) == TRUE

\* The parameter list: the request's query parameters, then the
\* operator-configured env.QUERY_PARAMS.
Params(query, queryParams) ==
    (IF Truthy(query) THEN Split(StripQuestionMark(query), "&") ELSE << >>)
    \o
    (IF Truthy(queryParams) THEN Split(StripQuestionMark(queryParams), "&") ELSE << >>)

\* const query = params ? `?${params.join("&")}` : null   (null is the
\* empty sequence here: the filter below drops both alike).
QueryString(params) ==
    IF ArrayTruthy(params) THEN <<"?">> \o Join(params, "&") ELSE << >>

\* [base, path, query].filter(x => x).join("")
TargetUrl(base, path, query) ==
    (IF Truthy(base) THEN base ELSE << >>)
    \o (IF Truthy(path) THEN path ELSE << >>)
    \o (IF Truthy(query) THEN query ELSE << >>)

\* Settings with the scale's fallback taken from the wrong default.
SettingsWrongDefault(groups, queryParams) ==
    [format |-> IF groups.format = Undefined THEN DefaultFormat ELSE groups.format,
     width  |-> IF groups.width = Undefined THEN DefaultWidth ELSE ParseInt(groups.width),
     height |-> IF groups.height = Undefined THEN DefaultHeight ELSE ParseInt(groups.height),
     scale  |-> IF groups.scale = Undefined THEN DefaultWidth ELSE ParseInt(groups.scale),
     maxage |-> DefaultMaxage,
     url    |-> TargetUrl(groups.base, groups.path,
                          QueryString(Params(groups.query, queryParams)))]

\* The settings Browser.fetch destructures from a successful match, with
\* the navigation URL it builds.
Settings(groups, queryParams) ==
    [format |-> IF groups.format = Undefined THEN DefaultFormat ELSE groups.format,
     width  |-> IF groups.width = Undefined THEN DefaultWidth ELSE ParseInt(groups.width),
     height |-> IF groups.height = Undefined THEN DefaultHeight ELSE ParseInt(groups.height),
     scale  |-> IF groups.scale = Undefined THEN DefaultScale ELSE ParseInt(groups.scale),
     maxage |-> DefaultMaxage,
     url    |-> TargetUrl(groups.base, groups.path,
                          QueryString(Params(groups.query, queryParams)))]

(***************************************************************************)
(* Part 2. The Worker entry point and the Browser Durable Object.          *)
(***************************************************************************)

\* Bounds of the model.
NumRequests == 2
MaxLaunches == 2
MaxDeliveries == 2

Requests == 1..NumRequests
Handles == 1..MaxLaunches

\* The request URLs of the state machine: one that matches the pattern
\* (https://e.c/screenshots/bar) and one that does not
\* (https://e.c/notscreenshot/bar).
UrlBar == Https \o <<"e", ".", "c">> \o Marker \o <<"s", "/", "b", "a", "r">>
UrlBad ==
    Https \o <<"e", ".", "c", "/", "n", "o", "t", "s", "c", "r", "e", "e",
               "n", "s", "h", "o", "t", "/", "b", "a", "r">>
Urls == {UrlBar, UrlBad}

KEEP_BROWSER_ALIVE_IN_SECONDS == 60
TEN_SECONDS == 10 * 1000

\* storage.getAlarm() when no alarm is set (null).
NoAlarm == -1

NoResponse == [status |-> 0]
NoSettings == [url |-> Undefined]

VARIABLES
    env,                \* this.env: cfAccess (both CF_ACCESS_* set), queryParams
    cache,              \* caches.default: request URL -> stored response
    pc,                 \* where each request is, in the Worker or in Browser.fetch
    url,                \* request.url of each request
    lookup,             \* what cache.match returned to each request
    settings,           \* the settings Browser.fetch computed for each request
    resp,               \* the response each request ended with
    launched,           \* outcome of the puppeteer.launch each call made
    context,            \* the handle each call asked for an incognito context
    ctxState,           \* the context each call opened: none, open, closed
    pageState,          \* the page each call opened: none, open, closed
    browser,            \* this.browser: 0 (undefined) or a handle
    hstate,             \* every engine handle: unlaunched, connected, closing, closed
    keptAliveInSeconds, \* this.keptAliveInSeconds
    alarm,              \* the storage alarm: NoAlarm, or the ms until it is due
    closing,            \* the handle alarm() awaits the close of, 0 when none
    alarmResult,        \* how the last alarm() call ended: none, running, completed, threw
    deliveries,         \* how often the last wake-up was delivered to alarm()
    ticks               \* alarms fired since a render last reset keptAliveInSeconds

vars == <<env, cache, pc, url, lookup, settings, resp, launched, context,
          ctxState, pageState, browser, hstate, keptAliveInSeconds, alarm,
          closing, alarmResult, deliveries, ticks>>

gatewayVars == <<cache, url, lookup, resp>>
engineVars == <<browser, hstate, launched>>
deliveryVars == <<alarmResult, deliveries>>
timerVars == <<keptAliveInSeconds, alarm, closing, ticks, alarmResult, deliveries>>
renderVars == <<context, ctxState, pageState>>

\* The constructor (lines 44-49) and an empty cache.
InitWith(e) ==
    /\ env = e
    /\ cache = [u \in Urls |-> NoResponse]
    /\ pc = [r \in Requests |-> "idle"]
    /\ url = [r \in Requests |-> Undefined]
    /\ lookup = [r \in Requests |-> NoResponse]
    /\ settings = [r \in Requests |-> NoSettings]
    /\ resp = [r \in Requests |-> NoResponse]
    /\ launched = [r \in Requests |-> "none"]
    /\ context = [r \in Requests |-> 0]
    /\ ctxState = [r \in Requests |-> "none"]
    /\ pageState = [r \in Requests |-> "none"]
    /\ browser = 0
    /\ hstate = [h \in Handles |-> "unlaunched"]
    /\ keptAliveInSeconds = 0
    /\ alarm = NoAlarm
    /\ closing = 0
    /\ alarmResult = "none"
    /\ deliveries = 0
    /\ ticks = 0

Init == \E ca \in BOOLEAN : InitWith([cfAccess |-> ca, queryParams |-> Undefined])

\* browser.isConnected(): the connection is open until close() has completed.
IsConnected(h) == hstate[h] \in {"connected", "closing"}

\* Whether a puppeteer call on handle h can succeed: never once the handle
\* is closed.
Usable(h) == h # 0 /\ hstate[h] \in {"connected", "closing"}

\* The response headers of lines 124-130 (Expires, a function of the wall
\* clock, is left out) and the captured body.
ContentType(format) ==
    IF format = Pdf THEN <<"application/pdf">> ELSE <<"image/">> \o format

RenderResponse(st) ==
    [status |-> 200,
     body |-> [url |-> st.url, width |-> st.width, height |-> st.height,
               scale |-> st.scale, pdf |-> st.format = Pdf],
     contentType |-> ContentType(st.format),
     maxage |-> st.maxage]

\* What the client receives when the Worker's fetch handler throws.
ErrorResponse == [status |-> 500]

\* GatewayLookup without the early return of line 11.
GatewayLookupNoReturn(r, u) ==
    /\ pc' = [pc EXCEPT ![r] = "called"]
    /\ UNCHANGED resp

\* Lines 5-16: the cache lookup; a hit is returned as it is, a miss calls
\* the Durable Object.
GatewayLookup(r, u) ==
    IF cache[u] # NoResponse
    THEN /\ resp' = [resp EXCEPT ![r] = cache[u]]
         /\ pc' = [pc EXCEPT ![r] = "done"]
    ELSE /\ pc' = [pc EXCEPT ![r] = "called"]
         /\ UNCHANGED resp

\* Requests are numbered in their order of arrival.
GatewayFetch(r, u) ==
    /\ pc[r] = "idle"
    /\ \A q \in 1..(r - 1) : pc[q] # "idle"
    /\ url' = [url EXCEPT ![r] = u]
    /\ lookup' = [lookup EXCEPT ![r] = cache[u]]
    /\ GatewayLookup(r, u)
    /\ UNCHANGED <<env, cache, settings, engineVars, timerVars, renderVars>>

\* Lines 83-86, reached with this.browser = b: the reset of the idle count
\* and the call of createIncognitoBrowserContext, a TypeError when
\* this.browser is undefined.
ResetAndOpenContext(r, b) ==
    /\ keptAliveInSeconds' = 0
    /\ ticks' = 0
    /\ IF b = 0
       THEN /\ pc' = [pc EXCEPT ![r] = "threw"]
            /\ UNCHANGED context
       ELSE /\ pc' = [pc EXCEPT ![r] = "createContext"]
            /\ context' = [context EXCEPT ![r] = b]

\* NeedsLaunch without the isConnected test.
NeedsLaunchOnlyWhenUndefined == browser = 0

\* NeedsLaunch that never reuses this.browser.
NeedsLaunchAlways == TRUE

\* Line 73: whether Browser.fetch starts a new instance.
NeedsLaunch == browser = 0 \/ ~IsConnected(browser)

\* Lines 51-86 up to the first await: the match (a TypeError on null), the
\* settings, then either the launch or the reuse of this.browser.
BrowserFetchEntry(r) ==
    /\ pc[r] = "called"
    /\ LET m == Match(url[r])
       IN  IF m = NoMatch
           THEN /\ pc' = [pc EXCEPT ![r] = "threw"]
                /\ UNCHANGED <<settings, context, keptAliveInSeconds, ticks>>
           ELSE /\ settings' = [settings EXCEPT
                                  ![r] = Settings(m.groups, env.queryParams)]
                /\ IF NeedsLaunch
                   THEN /\ pc' = [pc EXCEPT ![r] = "launching"]
                        /\ UNCHANGED <<context, keptAliveInSeconds, ticks>>
                   ELSE ResetAndOpenContext(r, browser)
    /\ UNCHANGED <<env, gatewayVars, engineVars, alarm, closing, deliveryVars,
                   ctxState, pageState>>

\* Lines 76-80: the handle this.browser holds after the launch of call r
\* ended: the new one, or the old one when the launch failed (the catch
\* only logs).
BrowserAfterLaunch(ok, h) == IF ok THEN h ELSE browser

\* Lines 77-86: puppeteer.launch resolves with a new handle or rejects.
LaunchDone(r) ==
    /\ pc[r] = "launching"
    /\ \E ok \in BOOLEAN :
         LET free == {h \in Handles : hstate[h] = "unlaunched"}
             h == IF free = {} THEN 0 ELSE CHOOSE x \in free : \A y \in free : x <= y
         IN  /\ ok => h # 0
             /\ launched' = [launched EXCEPT ![r] = IF ok THEN "ok" ELSE "failed"]
             /\ hstate' = IF ok THEN [hstate EXCEPT ![h] = "connected"] ELSE hstate
             /\ browser' = BrowserAfterLaunch(ok, h)
             /\ ResetAndOpenContext(r, browser')
    /\ UNCHANGED <<env, gatewayVars, settings, alarm, closing, deliveryVars,
                   ctxState, pageState>>

\* One awaited puppeteer call of Browser.fetch on the call's handle: it
\* resolves (only while the handle is usable) and the call goes on to
\* `to`, or it rejects and the exception leaves Browser.fetch.
Awaited(r, from, to, ok) ==
    /\ pc[r] = from
    /\ ok => Usable(context[r])
    /\ pc' = [pc EXCEPT ![r] = IF ok THEN to ELSE "threw"]

\* Line 86: createIncognitoBrowserContext.
CreateContextDone(r) ==
    \E ok \in BOOLEAN :
        /\ Awaited(r, "createContext", "newPage", ok)
        /\ ctxState' = [ctxState EXCEPT ![r] = IF ok THEN "open" ELSE @]
        /\ UNCHANGED <<env, gatewayVars, settings, engineVars, timerVars,
                       context, pageState>>

\* Lines 88-90: context.newPage, then whether the access headers are set.
NewPageDone(r) ==
    \E ok \in BOOLEAN :
        /\ Awaited(r, "newPage",
                   IF env.cfAccess THEN "setExtraHTTPHeaders" ELSE "setViewport", ok)
        /\ pageState' = [pageState EXCEPT ![r] = IF ok THEN "open" ELSE @]
        /\ UNCHANGED <<env, gatewayVars, settings, engineVars, timerVars,
                       context, ctxState>>

\* Lines 91-94: page.setExtraHTTPHeaders.
SetExtraHTTPHeadersDone(r) ==
    \E ok \in BOOLEAN :
        /\ Awaited(r, "setExtraHTTPHeaders", "setViewport", ok)
        /\ UNCHANGED <<env, gatewayVars, settings, engineVars, timerVars, renderVars>>

\* Line 97: page.setViewport.
SetViewportDone(r) ==
    \E ok \in BOOLEAN :
        /\ Awaited(r, "setViewport", "goto", ok)
        /\ UNCHANGED <<env, gatewayVars, settings, engineVars, timerVars, renderVars>>

\* Line 99: page.goto(url, networkidle0).
GotoDone(r) ==
    \E ok \in BOOLEAN :
        /\ Awaited(r, "goto", "capture", ok)
        /\ UNCHANGED <<env, gatewayVars, settings, engineVars, timerVars, renderVars>>

\* Lines 101-106: page.pdf or page.screenshot.
CaptureDone(r) ==
    \E ok \in BOOLEAN :
        /\ Awaited(r, "capture", "pageClose", ok)
        /\ UNCHANGED <<env, gatewayVars, settings, engineVars, timerVars, renderVars>>

\* Line 108: page.close.
PageCloseDone(r) ==
    \E ok \in BOOLEAN :
        /\ Awaited(r, "pageClose", "contextClose", ok)
        /\ pageState' = [pageState EXCEPT ![r] = IF ok THEN "closed" ELSE @]
        /\ UNCHANGED <<env, gatewayVars, settings, engineVars, timerVars,
                       context, ctxState>>

\* AlarmAfterRender that sets the alarm anew on every request.
AlarmAfterRenderAlways(current) == TEN_SECONDS

\* Lines 115-122: the alarm after a render: set only when none is pending.
AlarmAfterRender(current) == IF current = NoAlarm THEN TEN_SECONDS ELSE current

\* Lines 110-130: context.close, then the second reset, the alarm and the
\* response.  The storage calls keep other events out, so the steps after
\* the close are one step.
ContextCloseDone(r) ==
    \E ok \in BOOLEAN :
        /\ Awaited(r, "contextClose", "returned", ok)
        /\ ctxState' = [ctxState EXCEPT ![r] = IF ok THEN "closed" ELSE @]
        /\ keptAliveInSeconds' = IF ok THEN 0 ELSE keptAliveInSeconds
        /\ ticks' = IF ok THEN 0 ELSE ticks
        /\ alarm' = IF ok THEN AlarmAfterRender(alarm) ELSE alarm
        /\ UNCHANGED <<env, gatewayVars, settings, engineVars, closing,
                       deliveryVars, context, pageState>>

\* GatewayOutcome with the exception caught and the error response cached.
GatewayOutcomeCachesError(r) ==
    /\ resp' = [resp EXCEPT ![r] = IF pc[r] = "threw" THEN ErrorResponse
                                   ELSE RenderResponse(settings[r])]
    /\ pc' = [pc EXCEPT ![r] = "put"]

\* Lines 16-20 once Browser.fetch has ended: an exception leaves the
\* Worker's handler too (the client gets the runtime's error response and
\* line 18 is not reached); a response is handed to ctx.waitUntil(cache.put)
\* and returned.
GatewayOutcome(r) ==
    IF pc[r] = "threw"
    THEN /\ resp' = [resp EXCEPT ![r] = ErrorResponse]
         /\ pc' = [pc EXCEPT ![r] = "done"]
    ELSE /\ resp' = [resp EXCEPT ![r] = RenderResponse(settings[r])]
         /\ pc' = [pc EXCEPT ![r] = "put"]

GatewayResume(r) ==
    /\ pc[r] \in {"returned", "threw"}
    /\ GatewayOutcome(r)
    /\ UNCHANGED <<env, cache, url, lookup, settings, engineVars, timerVars,
                   renderVars>>

\* Line 18: the cache.put handed to ctx.waitUntil completes.
CachePut(r) ==
    /\ pc[r] = "put"
    /\ cache' = [cache EXCEPT ![url[r]] = resp[r]]
    /\ pc' = [pc EXCEPT ![r] = "done"]
    /\ UNCHANGED <<env, url, lookup, resp, settings, engineVars, timerVars,
                   renderVars>>

\* Ten seconds pass: the pending alarm becomes due.
TimePasses ==
    /\ alarm > 0
    /\ alarm' = 0
    /\ UNCHANGED <<env, gatewayVars, pc, settings, engineVars, renderVars,
                   keptAliveInSeconds, closing, deliveryVars, ticks>>

\* The count kept in alarms instead of seconds.
KeptAliveAfterTickByOne(k) == k + 1

\* Line 134.
KeptAliveAfterTick(k) == k + 10

\* Extends against the alarm interval instead of the budget.
ExtendsShort(k) == k < 10

\* Extends with the comparison off by one.
ExtendsInclusive(k) == k <= KEEP_BROWSER_ALIVE_IN_SECONDS

\* Line 137: whether the alarm extends the life of the browser.
Extends(k) == k < KEEP_BROWSER_ALIVE_IN_SECONDS

\* Lines 133-147 up to the await of close, with `pending` the alarm the
\* storage holds when alarm() starts: the idle count grows by ten, and the
\* alarm is either set again or this.browser.close() is called.
AlarmHandler(pending) ==
    /\ keptAliveInSeconds' = KeptAliveAfterTick(keptAliveInSeconds)
    /\ ticks' = ticks + 1
    /\ IF Extends(keptAliveInSeconds')
       THEN /\ alarm' = TEN_SECONDS
            /\ alarmResult' = "completed"
            /\ UNCHANGED <<closing, hstate>>
       ELSE /\ alarm' = pending
            /\ IF browser # 0
               THEN /\ closing' = browser
                    /\ alarmResult' = "running"
                    /\ hstate' = [hstate EXCEPT
                                    ![browser] = IF @ = "connected" THEN "closing" ELSE @]
               ELSE /\ alarmResult' = "completed"
                    /\ UNCHANGED <<closing, hstate>>

\* The due alarm is delivered: the runtime clears it and calls alarm().
BrowserAlarm ==
    /\ alarm = 0
    /\ closing = 0
    /\ AlarmHandler(NoAlarm)
    /\ deliveries' = 1
    /\ UNCHANGED <<env, gatewayVars, pc, settings, renderVars, browser, launched>>

\* How alarm() ends when the awaited close has resolved (ok) or rejected:
\* nothing catches the rejection, so it leaves alarm().
ResultAfterClose(ok) == IF ok THEN "completed" ELSE "threw"

\* Line 147: the awaited close resolves and the handle is closed, or it
\* rejects, the exception leaves alarm(), and the engine is left either
\* running or gone.
BrowserCloseDone ==
    /\ closing # 0
    /\ \E ok \in BOOLEAN, left \in {"connected", "closed"} :
         /\ ok => left = "closed"
         /\ hstate[closing] = "closed" => left = "closed"
         /\ hstate' = [hstate EXCEPT ![closing] = left]
         /\ alarmResult' = ResultAfterClose(ok)
    /\ closing' = 0
    /\ UNCHANGED <<env, gatewayVars, pc, settings, renderVars, browser, launched,
                   keptAliveInSeconds, alarm, deliveries, ticks>>

\* A wake-up that was delivered is delivered once more (the timer service
\* delivers at least once; the runtime does so after alarm() threw): alarm()
\* runs again, on whatever alarm the storage holds by now.
BrowserAlarmAgain ==
    /\ deliveries >= 1
    /\ deliveries < MaxDeliveries
    /\ closing = 0
    /\ AlarmHandler(alarm)
    /\ deliveries' = deliveries + 1
    /\ UNCHANGED <<env, gatewayVars, pc, settings, renderVars, browser, launched>>

Next ==
    \/ \E r \in Requests, u \in Urls : GatewayFetch(r, u)
    \/ \E r \in Requests : BrowserFetchEntry(r)
    \/ \E r \in Requests : LaunchDone(r)
    \/ \E r \in Requests : CreateContextDone(r)
    \/ \E r \in Requests : NewPageDone(r)
    \/ \E r \in Requests : SetExtraHTTPHeadersDone(r)
    \/ \E r \in Requests : SetViewportDone(r)
    \/ \E r \in Requests : GotoDone(r)
    \/ \E r \in Requests : CaptureDone(r)
    \/ \E r \in Requests : PageCloseDone(r)
    \/ \E r \in Requests : ContextCloseDone(r)
    \/ \E r \in Requests : GatewayResume(r)
    \/ \E r \in Requests : CachePut(r)
    \/ TimePasses
    \/ BrowserAlarm
    \/ BrowserCloseDone

Spec == Init /\ [][Next]_vars

\* The same with wake-ups delivered at least once instead of exactly once.
AtLeastOnceNext == Next \/ BrowserAlarmAgain

AtLeastOnceSpec == Init /\ [][AtLeastOnceNext]_vars

\* The scheduling the runtime guarantees: a handler that can take its next
\* step takes it, time passes, and a due alarm is delivered.
FairSpec ==
    /\ Spec
    /\ WF_vars(Next)
    /\ WF_vars(TimePasses)
    /\ WF_vars(BrowserAlarm)
    /\ WF_vars(BrowserCloseDone)

(***************************************************************************)
(* Part 3. The claims.                                                     *)
(***************************************************************************)

\* The engine handles that were launched and are not yet closed.
LiveHandles == {h \in Handles : hstate[h] \in {"connected", "closing"}}

\* The positions of a request inside Browser.fetch.
InBrowserFetch ==
    {"called", "launching", "createContext", "newPage", "setExtraHTTPHeaders",
     "setViewport", "goto", "capture", "pageClose", "contextClose"}

NoRenderInFlight == \A r \in Requests : pc[r] \notin InBrowserFetch

AllRequestsDone == \A r \in Requests : pc[r] = "done"

\* C1: at every reachable state at most one engine handle is live (launched
\* and not yet closed), whatever the interleaving of concurrent
\* Browser.fetch calls.
C1_AtMostOneLiveHandle == Cardinality(LiveHandles) <= 1

\* C2: with no render in flight, each of the first five alarms after the
\* last reset of the idle count changes no engine handle and leaves exactly
\* one alarm pending ten seconds later; the sixth calls close on
\* this.browser, which is live no longer, and leaves no alarm pending.
C2_IdleTicks ==
    [][(ticks' = ticks + 1 /\ NoRenderInFlight) =>
         IF ticks' <= 5
         THEN /\ hstate' = hstate
              /\ closing' = 0
              /\ alarm' = 10 * 1000
              /\ keptAliveInSeconds' = 10 * ticks'
         ELSE /\ ticks' = 6
              /\ browser # 0
              /\ closing' = browser
              /\ hstate'[browser] # "connected"
              /\ alarm' = NoAlarm]_vars

\* C2 witness: the sixth alarm after a successful render has released the
\* handle, every request is over and no alarm is pending.
C2_Witness ==
    /\ ticks = 6
    /\ keptAliveInSeconds = 60
    /\ AllRequestsDone
    /\ \E r \in Requests : ctxState[r] = "closed"
    /\ browser # 0
    /\ hstate[browser] = "closed"
    /\ alarm = NoAlarm

\* C3: once every request is over, every launched engine is eventually
\* released (no handle stays live), whatever the outcome of the renders.
C3_EveryEngineReleased == AllRequestsDone ~> (LiveHandles = {})

\* C4: a request whose cache lookup returned an entry ends with that entry
\* as its response, and Browser.fetch never runs for it: no settings, no
\* launch, no context, no cache.put pending or done.
C4_CacheHitShortCircuits ==
    \A r \in Requests :
        (pc[r] # "idle" /\ lookup[r] # NoResponse) =>
            /\ pc[r] = "done"
            /\ resp[r] = lookup[r]
            /\ settings[r] = NoSettings
            /\ launched[r] = "none"
            /\ context[r] = 0
            /\ ctxState[r] = "none"

\* C4 witness: a request was served from the cache.
C4_Witness ==
    \E r \in Requests :
        /\ pc[r] = "done"
        /\ lookup[r] # NoResponse
        /\ resp[r].status = 200

\* A request whose Browser.fetch call ended in an exception: the cache
\* missed and the call is over without its last await, context.close,
\* having resolved.
RenderFailed(r) ==
    /\ lookup[r] = NoResponse
    /\ pc[r] \in {"threw", "done"}
    /\ ctxState[r] # "closed"

\* C5: the cache holds only responses of successful renders; a request
\* whose Browser.fetch call failed ends with a server error response and no
\* cache.put is made for it.
C5_NoErrorCached ==
    /\ \A u \in Urls : cache[u] # NoResponse => cache[u].status = 200
    /\ \A r \in Requests :
         /\ pc[r] = "put" => (ctxState[r] = "closed" /\ resp[r].status = 200)
         /\ (RenderFailed(r) /\ pc[r] = "done") =>
                (resp[r].status \in 500..599 /\ cache[url[r]] # resp[r])

\* C5 witness: a navigation or capture failure ended a request with a
\* server error and the cache has no entry for its URL.
C5_Witness ==
    \E r \in Requests :
        /\ RenderFailed(r)
        /\ pc[r] = "done"
        /\ pageState[r] = "open"
        /\ resp[r].status = 500
        /\ cache[url[r]] = NoResponse

\* C6: a call whose launch failed ends there: it asks no handle for a
\* context, and while it is the last call to have touched this.browser no
\* handle is registered.
C6_LaunchFailureEndsCall ==
    \A r \in Requests :
        launched[r] = "failed" =>
            /\ pc[r] \in {"threw", "done"}
            /\ context[r] = 0
            /\ ((\A o \in Requests : launched[o] # "ok") => browser = 0)

\* C7: a cache miss for a URL the pattern does not match ends with a
\* client error (4xx) response and without any rendering step.
C7_MalformedIsClientError ==
    \A r \in Requests :
        (pc[r] = "done" /\ lookup[r] = NoResponse /\ Match(url[r]) = NoMatch) =>
            /\ resp[r].status \in 400..499
            /\ launched[r] = "none"
            /\ context[r] = 0

\* C10: whenever a call asks a handle for a context, the release of that
\* handle by alarm() has not begun.
C10_NoContextOnHandleInTeardown ==
    [][\A r \in Requests :
         context'[r] # context[r] =>
            /\ closing # context'[r]
            /\ hstate'[context'[r]] = "connected"]_vars

(***************************************************************************)
(* Part 4. The parser on its own: Browser.fetch's match and settings       *)
(* applied to request URLs assembled from their segments.                  *)
(***************************************************************************)

ParseBases == {Https \o <<"e", ".", "c">>, Https \o <<"e", ".", "c", "/", "a">>}

ParseMarkers == {Marker, Marker \o <<"s">>}

ParseDims ==
    {[on |-> FALSE, text |-> << >>, width |-> 0, height |-> 0],
     [on |-> TRUE, text |-> <<"/", "6", "0", "0", "x", "4", "0", "0">>,
      width |-> 600, height |-> 400],
     [on |-> TRUE, text |-> <<"/", "0", "8", "x", "5">>, width |-> 8, height |-> 5]}

ParsePaths == {<<"/">>, <<"/", "b", "a", "r">>, <<"/", "f", "/", "b">>}

ParseScales ==
    {[on |-> FALSE, text |-> << >>, value |-> 0],
     [on |-> TRUE, text |-> <<"@", "2", "x">>, value |-> 2],
     [on |-> TRUE, text |-> <<"@", "4", "x">>, value |-> 4]}

ParseFormats ==
    {[on |-> FALSE, text |-> << >>, value |-> << >>],
     [on |-> TRUE, text |-> <<".", "p", "d", "f">>, value |-> Pdf],
     [on |-> TRUE, text |-> <<".", "p", "n", "g">>, value |-> Png]}

\* Query strings with the parameters they hold.
ParseQueries ==
    {[text |-> << >>, parts |-> << >>],
     [text |-> <<"?", "x", "=", "1">>, parts |-> << <<"x", "=", "1">> >>],
     [text |-> <<"?", "x", "=", "1", "&", "y", "=", "2">>,
      parts |-> << <<"x", "=", "1">>, <<"y", "=", "2">> >>]}

\* Values of env.QUERY_PARAMS with the parameters they hold.
ParseConfigured ==
    {[raw |-> Undefined, parts |-> << >>],
     [raw |-> <<"a", "=", "1">>, parts |-> << <<"a", "=", "1">> >>],
     [raw |-> <<"?", "a", "=", "1", "&", "b", "=", "2">>,
      parts |-> << <<"a", "=", "1">>, <<"b", "=", "2">> >>]}

\* Every request URL of the documented shape over these segments, with
\* the segments it was assembled from.
ParseCases ==
    {[url |-> b \o m \o d.text \o p \o sc.text \o f.text \o q.text,
      base |-> b, dims |-> d, path |-> p, scale |-> sc, format |-> f, query |-> q] :
        b \in ParseBases, m \in ParseMarkers, d \in ParseDims, p \in ParsePaths,
        sc \in ParseScales, f \in ParseFormats, q \in ParseQueries}

\* Request URLs the pattern does not match: no marker, no https, no path
\* after the marker.
ParseMalformed ==
    {UrlBad,
     <<"h", "t", "t", "p", ":", "/", "/", "e", ".", "c">> \o Marker \o <<"/", "b">>,
     Https \o <<"e", ".", "c">> \o Marker}

ParseUrls == {k.url : k \in ParseCases} \cup ParseMalformed

\* The state in which Browser.fetch is called with URL u after a cache miss.
ParseInit ==
    \E u \in ParseUrls, c \in ParseConfigured :
        /\ env = [cfAccess |-> FALSE, queryParams |-> c.raw]
        /\ cache = [x \in Urls |-> NoResponse]
        /\ pc = [r \in Requests |-> IF r = 1 THEN "called" ELSE "idle"]
        /\ url = [r \in Requests |-> IF r = 1 THEN u ELSE Undefined]
        /\ lookup = [r \in Requests |-> NoResponse]
        /\ settings = [r \in Requests |-> NoSettings]
        /\ resp = [r \in Requests |-> NoResponse]
        /\ launched = [r \in Requests |-> "none"]
        /\ context = [r \in Requests |-> 0]
        /\ ctxState = [r \in Requests |-> "none"]
        /\ pageState = [r \in Requests |-> "none"]
        /\ browser = 0
        /\ hstate = [h \in Handles |-> "unlaunched"]
        /\ keptAliveInSeconds = 0
        /\ alarm = NoAlarm
        /\ closing = 0
        /\ alarmResult = "none"
        /\ deliveries = 0
        /\ ticks = 0

ParseNext == \E r \in Requests : BrowserFetchEntry(r)

ParseSpec == ParseInit /\ [][ParseNext]_vars

\* The requests whose URL Browser.fetch has matched against the pattern.
Parsed == {r \in Requests : pc[r] \notin {"idle", "called"}}

\* C8: the navigation URL is base + path, followed by "?" and the
\* parameters (the request's, then the configured ones) joined with "&"
\* when there is a parameter, and by nothing when there is none.
C8_TargetUrl ==
    \A r \in Parsed : \A k \in ParseCases : \A c \in ParseConfigured :
        (url[r] = k.url /\ env.queryParams = c.raw) =>
            settings[r].url =
                k.base \o k.path \o
                (IF k.query.parts \o c.parts = << >>
                 THEN << >>
                 ELSE <<"?">> \o Join(k.query.parts \o c.parts, "&"))

\* C9: every URL of the shape is matched, each optional segment present in
\* it gives its value, each omitted one its default (png, 1200, 630, 1),
\* and the cache lifetime is 604800 seconds.
C9_DefaultsApply ==
    \A r \in Parsed : \A k \in ParseCases :
        url[r] = k.url =>
            /\ settings[r] # NoSettings
            /\ settings[r].width = (IF k.dims.on THEN k.dims.width ELSE 1200)
            /\ settings[r].height = (IF k.dims.on THEN k.dims.height ELSE 630)
            /\ settings[r].scale = (IF k.scale.on THEN k.scale.value ELSE 1)
            /\ settings[r].format = (IF k.format.on THEN k.format.value ELSE Png)
            /\ settings[r].maxage = 604800

\* C9 witness: a URL with a scale and a format but no dimensions was
\* parsed: the dimensions are the defaults, scale and format the URL's.
C9_Witness ==
    \E r \in Parsed :
        /\ settings[r] # NoSettings
        /\ \E k \in ParseCases : url[r] = k.url /\ ~k.dims.on /\ k.scale.on
        /\ settings[r].width = 1200
        /\ settings[r].height = 630
        /\ settings[r].scale = 2
        /\ settings[r].format = Pdf

(***************************************************************************)
(* Part 5. Further claims on the state machine.                            *)
(***************************************************************************)

\* The positions at which a call holds a handle it asked for a context.
UsingHandle ==
    {"createContext", "newPage", "setExtraHTTPHeaders", "setViewport", "goto",
     "capture", "pageClose", "contextClose"}

\* C11: an alarm never calls close on a handle that a call in flight is
\* using, however many alarms fire during the call.
C11_NoEvictionDuringRender ==
    [][(closing = 0 /\ closing' # 0) =>
         \A r \in Requests : ~(pc[r] \in UsingHandle /\ context[r] = closing')]_vars

\* C12: once a call has left Browser.fetch, by return or by exception, no
\* context and no page it opened is still open.
C12_ContextAndPageClosed ==
    \A r \in Requests :
        pc[r] \in {"returned", "threw", "put", "done"} =>
            (ctxState[r] # "open" /\ pageState[r] # "open")

\* The step with which call r completes its render (lines 110-130).
Completes(r) == pc[r] = "contextClose" /\ pc'[r] = "returned"

\* C13: a completing render sets the alarm ten seconds ahead when none is
\* pending and leaves a pending one as it is; no other step of a request
\* touches the alarm.
C13_OneAlarmNeverMoved ==
    [][\A r \in Requests :
         pc'[r] # pc[r] =>
            IF Completes(r) /\ alarm = NoAlarm
            THEN alarm' = 10 * 1000
            ELSE alarm' = alarm]_vars

\* C13 witness: two renders have completed, the second one just now, and
\* the one alarm is due.
C13_Witness ==
    /\ pc[1] = "done"
    /\ ctxState[1] = "closed"
    /\ pc[2] = "returned"
    /\ ctxState[2] = "closed"
    /\ keptAliveInSeconds = 0
    /\ alarm = 0

\* The step with which call r passes line 73 with a URL that matches.
PassesCheck(r) == pc[r] = "called" /\ pc'[r] \in {"launching", "createContext"}

\* C15: a call launches exactly when this.browser is undefined or closed,
\* and otherwise asks this.browser for the context without any launch; a
\* launch that succeeds registers a handle not launched before and resets
\* the idle count, and a completed render leaves the count at 0 and an
\* alarm pending.
C15_LaunchExactlyWhenNeeded ==
    [][\A r \in Requests :
         /\ PassesCheck(r) =>
              /\ pc'[r] = "launching" <=> (browser = 0 \/ hstate[browser] = "closed")
              /\ pc'[r] = "createContext" =>
                    (context'[r] = browser /\ launched'[r] = "none" /\ hstate' = hstate)
         /\ (pc[r] = "launching" /\ launched'[r] = "ok") =>
              /\ hstate[browser'] = "unlaunched"
              /\ hstate'[browser'] = "connected"
              /\ context'[r] = browser'
              /\ keptAliveInSeconds' = 0
         /\ Completes(r) => (keptAliveInSeconds' = 0 /\ alarm' # NoAlarm)]_vars

\* C15 witness: after the eviction of the first engine a call launched a
\* second one and completed its render on it: the count is 0 and an alarm
\* is pending.
C15_Witness ==
    \E r \in Requests :
        /\ hstate[1] = "closed"
        /\ browser = 2
        /\ launched[r] = "ok"
        /\ context[r] = 2
        /\ pc[r] = "returned"
        /\ keptAliveInSeconds = 0
        /\ alarm = 10 * 1000

\* C16: a call that fails in goto or in the capture changes neither
\* this.browser nor any handle and launches nothing, a failed call takes no
\* further step in Browser.fetch, and a call that finds this.browser
\* connected asks that handle for its context without a launch.
C16_HandlePreservedOnFailure ==
    [][\A r \in Requests :
         /\ (pc[r] \in {"goto", "capture"} /\ pc'[r] = "threw") =>
              (browser' = browser /\ hstate' = hstate /\ launched' = launched)
         /\ pc[r] = "threw" => pc'[r] \in {"threw", "done"}
         /\ (PassesCheck(r) /\ browser # 0 /\ hstate[browser] = "connected") =>
              (pc'[r] = "createContext" /\ context'[r] = browser
               /\ launched'[r] = "none")]_vars

\* C16 witness: after a call failed with its page open, another call is
\* using the same handle, still connected, without having launched.
C16_Witness ==
    \E f \in Requests, r \in Requests :
        /\ pc[f] \in {"threw", "done"}
        /\ pageState[f] = "open"
        /\ launched[f] = "ok"
        /\ pc[r] = "createContext"
        /\ launched[r] = "none"
        /\ context[r] = context[f]
        /\ hstate[context[r]] = "connected"

\* C18: the idle count is a multiple of 10 between 0 and 60.
C18_KeptAliveRange == keptAliveInSeconds \in {0, 10, 20, 30, 40, 50, 60}

\* C18 witness: the count has reached 60.
C18_Witness == keptAliveInSeconds = 60 /\ ticks = 6

\* C19: alarm() calls close only when at least six alarms have fired since
\* a render last reset the idle count.
C19_EvictionNeedsSixTicks ==
    [][(closing = 0 /\ closing' # 0) => ticks' >= 6]_vars

\* C19 witness: close has been called, at the sixth alarm since the reset.
C19_Witness == closing # 0 /\ ticks = 6 /\ hstate[closing] = "closing"

\* C14: when the close awaited by an eviction ends, resolved or rejected,
\* alarm() has completed normally, the handle no longer reports itself
\* connected (so the next call launches) and the alarm is as it was.
C14_CloseFailureContained ==
    [][(closing # 0 /\ closing' = 0) =>
         /\ alarmResult' = "completed"
         /\ hstate'[closing] = "closed"
         /\ alarm' = alarm]_vars

\* C17: a second delivery of a wake-up changes neither the idle count, nor
\* any handle, nor the pending alarm.
C17_SecondDeliveryChangesNothing ==
    [][deliveries' > 1 =>
         /\ keptAliveInSeconds' = keptAliveInSeconds
         /\ hstate' = hstate
         /\ closing' = closing
         /\ alarm' = alarm]_vars

=============================================================================
